---- MODULE Spec2Model ----
(***************************************************************************)
(* Model of custom_render_engine.py: the viewport callbacks of             *)
(* CustomRenderEngine (view_update, view_draw) and the MeshDraw helper     *)
(* (buffer construction and the per-instance draw).                        *)
(*                                                                         *)
(* The host (Blender) owns the scene.  It calls view_update with a         *)
(* dependency graph and view_draw with a context; both are inputs here.    *)
(* After a callback returns the model keeps what the callback was given    *)
(* and what it did (depsgraph, frame) until the host resumes, so that the  *)
(* effect of one call can be compared with its input.                      *)
(***************************************************************************)
EXTENDS Integers, Sequences, FiniteSets, TLC

\* ------------------------------------------------------------------ bounds
MaxIds == 3
MaxEntries == 2
MaxMissing == 1
MaxLights == 6
MaxVerts == 4
MaxPolys == 2

\* --------------------------------------------------------------- utilities
\* Python's None; the fields that hold it are only tested for truthiness.
None == <<>>

RECURSIVE SeqsUpTo(_, _)
SeqsUpTo(S, n) ==
    IF n = 0 THEN {<<>>}
    ELSE LET shorter == SeqsUpTo(S, n - 1)
         IN shorter \cup {Append(s, x) : s \in {t \in shorter : Len(t) = n - 1}, x \in S}

Range(s) == {s[i] : i \in 1..Len(s)}

\* ------------------------------------------------------- the host's scene
MeshObjects == {"m1", "m2"}
SunObjects == {"sun1", "sun2"}
Objects == MeshObjects \cup SunObjects \cup {"lamp"}
\* The datablocks depsgraph.ids and update.id range over: the mesh objects, a
\* light object and a material, which is no Object.
Datablocks == MeshObjects \cup {"sun1", "mat"}

\* isinstance(datablock, bpy.types.Object)
IsObject(d) == d \in Objects

\* object.type
ObjType(o) == IF o \in MeshObjects THEN "MESH" ELSE "LIGHT"

\* object.data.type of a light object
LightType(o) == IF o \in SunObjects THEN "SUN" ELSE "POINT"

\* object.name: the key of the cache.  Names are unique among objects.
ObjName(o) ==
    CASE o = "m1" -> "Cube"
      [] o = "m2" -> "Suzanne"
      [] o = "sun1" -> "Sun"
      [] o = "sun2" -> "Sun.001"
      [] o = "lamp" -> "Point"

\* object.matrix_world.decompose()[1] of the light objects, as the rotation
\* matrix of the quaternion: identity, a quarter turn about X, a half turn
\* about X.
ObjRotation(o) ==
    CASE o = "sun1" -> << <<1, 0, 0>>, <<0, 1, 0>>, <<0, 0, 1>> >>
      [] o = "sun2" -> << <<1, 0, 0>>, <<0, 0, -1>>, <<0, 1, 0>> >>
      [] OTHER -> << <<1, 0, 0>>, <<0, -1, 0>>, <<0, 0, -1>> >>

\* Vector.rotate: the vector becomes R * v.
rotate(v, R) == [i \in 1..3 |-> R[i][1] * v[1] + R[i][2] * v[2] + R[i][3] * v[3]]

\* Mesh datablocks an object's data can be.  Indices are 0-based as in the
\* host; tangents_ok is FALSE where calc_tangents raises RuntimeError.
Tri ==
    [vertices |-> << <<0, 0, 0>>, <<1, 0, 0>>, <<0, 1, 0>> >>,
     loop_vertex |-> <<0, 1, 2>>,
     loop_normal |-> << <<0, 0, 1>>, <<0, 0, 1>>, <<0, 0, 1>> >>,
     loop_triangles |-> << <<0, 1, 2>> >>,
     has_colors |-> FALSE,
     loop_color |-> <<>>,
     tangents_ok |-> FALSE]

TwoTris ==
    [vertices |-> << <<0, 0, 0>>, <<1, 0, 0>>, <<0, 1, 0>>, <<1, 1, 0>> >>,
     loop_vertex |-> <<0, 1, 2, 2, 1, 3>>,
     loop_normal |-> << <<0, 0, 1>>, <<0, 0, 1>>, <<0, 0, 1>>,
                        <<0, 1, 0>>, <<0, 1, 0>>, <<0, 1, 0>> >>,
     loop_triangles |-> << <<0, 1, 2>>, <<3, 4, 5>> >>,
     has_colors |-> TRUE,
     loop_color |-> << <<1, 0, 0, 1>>, <<0, 1, 0, 1>>, <<0, 0, 1, 1>>,
                       <<1, 1, 0, 1>>, <<0, 1, 1, 1>>, <<1, 0, 1, 1>> >>,
     tangents_ok |-> TRUE]

\* The geometry an object can have: m1 is edited between two shapes, m2 keeps
\* its shape.
SceneMeshes(o) == IF o = "m1" THEN {Tri, TwoTris} ELSE {Tri}

\* ----------------------------------------------------------------- MeshDraw
\* Python object identity: a new MeshDraw differs from every MeshDraw that is
\* still alive, that is, still referenced by the cache.
FreshId(calls) ==
    CHOOSE i \in 1..(Cardinality(DOMAIN calls) + 1) :
        /\ \A k \in DOMAIN calls : calls[k].id # i
        /\ \A j \in 1..(i - 1) : \E k \in DOMAIN calls : calls[k].id = j

\* MeshDraw that copies the vertex coordinates without the gather through
\* loop_vertices: one position per vertex.
MeshDraw_no_gather(mesh) ==
    LET n_loops == Len(mesh.loop_vertex)
        vertices == mesh.vertices
        normals == [i \in 1..n_loops |-> mesh.loop_normal[i]]
        color == [i \in 1..n_loops |->
                     IF mesh.has_colors THEN mesh.loop_color[i] ELSE <<0, 0, 0, 0>>]
        indices == mesh.loop_triangles
    IN [transform |-> None,
        batch |-> [position |-> vertices, normal |-> normals,
                   color |-> color, indices |-> indices]]

\* MeshDraw that renumbers the triangle corners to the vertices they refer
\* to, as an indexed mesh with shared vertices would.
MeshDraw_vertex_indices(mesh) ==
    LET n_loops == Len(mesh.loop_vertex)
        vertices == [i \in 1..n_loops |-> mesh.vertices[mesh.loop_vertex[i] + 1]]
        normals == [i \in 1..n_loops |-> mesh.loop_normal[i]]
        color == [i \in 1..n_loops |->
                     IF mesh.has_colors THEN mesh.loop_color[i] ELSE <<0, 0, 0, 0>>]
        indices == [t \in 1..Len(mesh.loop_triangles) |->
                       [k \in 1..3 |-> mesh.loop_vertex[mesh.loop_triangles[t][k] + 1]]]
    IN [transform |-> None,
        batch |-> [position |-> vertices, normal |-> normals,
                   color |-> color, indices |-> indices]]

\* MeshDraw whose color array starts as np.ones: opaque white where the mesh
\* has no active color layer.
MeshDraw_white_default(mesh) ==
    LET n_loops == Len(mesh.loop_vertex)
        vertices == [i \in 1..n_loops |-> mesh.vertices[mesh.loop_vertex[i] + 1]]
        normals == [i \in 1..n_loops |-> mesh.loop_normal[i]]
        color == [i \in 1..n_loops |->
                     IF mesh.has_colors THEN mesh.loop_color[i] ELSE <<1, 1, 1, 1>>]
        indices == mesh.loop_triangles
    IN [transform |-> None,
        batch |-> [position |-> vertices, normal |-> normals,
                   color |-> color, indices |-> indices]]

\* MeshDraw that reads the loop normals only where calc_tangents succeeded and
\* leaves them zero otherwise.
MeshDraw_no_fallback(mesh) ==
    LET n_loops == Len(mesh.loop_vertex)
        use_split_normals == mesh.tangents_ok
        vertices == [i \in 1..n_loops |-> mesh.vertices[mesh.loop_vertex[i] + 1]]
        normals == [i \in 1..n_loops |->
                       IF use_split_normals THEN mesh.loop_normal[i] ELSE <<0, 0, 0>>]
        color == [i \in 1..n_loops |->
                     IF mesh.has_colors THEN mesh.loop_color[i] ELSE <<0, 0, 0, 0>>]
        indices == mesh.loop_triangles
    IN [transform |-> None,
        batch |-> [position |-> vertices, normal |-> normals,
                   color |-> color, indices |-> indices]]

\* MeshDraw that allocates one row at least for every per-loop array.
MeshDraw_one_row_at_least(mesh) ==
    LET n_loops == Len(mesh.loop_vertex)
        n_rows == IF n_loops = 0 THEN 1 ELSE n_loops
        vertices == [i \in 1..n_rows |->
                        IF i <= n_loops THEN mesh.vertices[mesh.loop_vertex[i] + 1]
                        ELSE <<0, 0, 0>>]
        normals == [i \in 1..n_rows |->
                       IF i <= n_loops THEN mesh.loop_normal[i] ELSE <<0, 0, 0>>]
        color == [i \in 1..n_rows |->
                     IF mesh.has_colors /\ i <= n_loops THEN mesh.loop_color[i]
                     ELSE <<0, 0, 0, 0>>]
        indices == mesh.loop_triangles
    IN [transform |-> None,
        batch |-> [position |-> vertices, normal |-> normals,
                   color |-> color, indices |-> indices]]

\* MeshDraw.__init__(mesh): the per-loop arrays handed to batch_for_shader.
\* use_split_normals is computed from calc_tangents and never read again.
MeshDraw(mesh) ==
    LET n_loops == Len(mesh.loop_vertex)
        use_split_normals == mesh.tangents_ok
        vertices == [i \in 1..n_loops |-> mesh.vertices[mesh.loop_vertex[i] + 1]]
        normals == [i \in 1..n_loops |-> mesh.loop_normal[i]]
        color == [i \in 1..n_loops |->
                     IF mesh.has_colors THEN mesh.loop_color[i] ELSE <<0, 0, 0, 0>>]
        indices == mesh.loop_triangles
    IN [transform |-> None,
        batch |-> [position |-> vertices, normal |-> normals,
                   color |-> color, indices |-> indices]]

\* The local min of MeshDraw.draw.
min(a, b) == IF a > b THEN b ELSE a

\* mathutils.Matrix.Diagonal(Vector((0, 0, 0, 0)))
ZeroMatrix == [i \in 1..4 |-> <<0, 0, 0, 0>>]

\* Matrix.transposed()
transposed(M) == [i \in 1..4 |-> [j \in 1..4 |-> M[j][i]]]

\* packed_lights with the loop bound off by one: range(min(len(lights), 3)).
packed_lights_three(lights) ==
    [i \in 1..4 |->
        IF i <= min(Len(lights), 3)
        THEN <<lights[i][1], lights[i][2], lights[i][3], ZeroMatrix[i][4]>>
        ELSE ZeroMatrix[i]]

\* The loop of MeshDraw.draw that fills packed_lights: row i gets light i in
\* its xyz, w stays 0.
packed_lights(lights) ==
    [i \in 1..4 |->
        IF i <= min(Len(lights), 4)
        THEN <<lights[i][1], lights[i][2], lights[i][3], ZeroMatrix[i][4]>>
        ELSE ZeroMatrix[i]]

\* The uniforms MeshDraw.draw sets, in the order of the try block.
UniformOrder ==
    <<"matrix_world", "view_matrix", "projection_matrix", "directional_lights",
      "render_outlines", "outline_width", "shading_sharpness">>

UniformNames == Range(UniformOrder)

UniformValue(name, transform, region_data, lights, settings) ==
    CASE name = "matrix_world" -> transform
      [] name = "view_matrix" -> region_data.view_matrix
      [] name = "projection_matrix" -> region_data.window_matrix
      [] name = "directional_lights" -> transposed(packed_lights(lights))
      [] name = "render_outlines" -> <<settings.enable_outline>>
      [] name = "outline_width" -> settings.outline_width
      [] name = "shading_sharpness" -> settings.shading_sharpness

\* The try block of MeshDraw.draw: uniform_float / uniform_bool raise
\* ValueError for a name the shader does not expose, and the except clause
\* ends the whole block.  The result is the set of names that were set.
\* shader is the set of uniform names the compiled program exposes.
UniformsSet(shader) ==
    LET failing == {i \in 1..Len(UniformOrder) : UniformOrder[i] \notin shader}
        stop == IF failing = {} THEN Len(UniformOrder) + 1
                ELSE CHOOSE i \in failing : \A j \in failing : i <= j
    IN {UniformOrder[i] : i \in 1..(stop - 1)}

\* draw that returns before batch.draw when there is no light to shade with.
draw_lit_only(self, shader, transform, region_data, lights, settings) ==
    [batch |-> self.id,
     uniforms |-> [name \in UniformsSet(shader) |->
                      UniformValue(name, transform, region_data, lights, settings)],
     drawn |-> lights # <<>>]

\* MeshDraw.draw(transform, region_data, lights, settings): what reaches the
\* GPU for one instance.
draw(self, shader, transform, region_data, lights, settings) ==
    [batch |-> self.id,
     uniforms |-> [name \in UniformsSet(shader) |->
                      UniformValue(name, transform, region_data, lights, settings)],
     drawn |-> TRUE]

\* ------------------------------------------------------------------- state
VARIABLES
    scene_data,      \* CustomRenderEngine.scene_data: None, then [0]
    draw_calls,      \* CustomRenderEngine.draw_calls: name -> MeshDraw
    lights,          \* CustomRenderEngine.lights: light directions
    mesh_objects,    \* CustomRenderEngine.mesh_objects: visible mesh objects
    mesh_data,       \* host: object.data of every mesh object
    last_call,       \* the callback that returned last and is not yet resumed from
    depsgraph,       \* the depsgraph that callback was given (view_update)
    frame,           \* what that callback was given and did on the GPU (view_draw)
    shown            \* history: the mesh objects view_update has found among the
                     \* instances so far, kept where a claim speaks of it

vars == <<scene_data, draw_calls, lights, mesh_objects, mesh_data,
          last_call, depsgraph, frame, shown>>

engine == <<scene_data, draw_calls, lights, mesh_objects>>

NoDepsgraph == [ids |-> <<>>, updates |-> <<>>, object_updated |-> FALSE,
                object_instances |-> <<>>]

NoContext == [shader |-> {}, matrix_world |-> <<>>, region_data |-> <<>>,
              settings |-> <<>>]

NeutralGpu == [depth_mask |-> FALSE, depth_test |-> "NONE", face_culling |-> "NONE"]

FrameGpu == [depth_mask |-> TRUE, depth_test |-> "LESS_EQUAL", face_culling |-> "BACK"]

NoFrame == [context |-> NoContext, raised |-> "none", gpu |-> NeutralGpu,
            calls |-> <<>>]

\* CustomRenderEngine.__init__
Init ==
    /\ scene_data = None
    /\ draw_calls = <<>>
    /\ lights = <<>>
    /\ mesh_objects = <<>>
    /\ mesh_data \in {f \in [MeshObjects -> {Tri, TwoTris}] :
                        \A o \in MeshObjects : f[o] \in SceneMeshes(o)}
    /\ last_call = "none"
    /\ depsgraph = NoDepsgraph
    /\ frame = NoFrame
    /\ shown = {}

\* ------------------------------------------------------------- view_update
\* StoreDraw that keeps an entry already cached (dict.setdefault).
StoreDraw_keep_old(calls, datablock, mesh) ==
    LET built == MeshDraw(mesh)
        entry == [id |-> FreshId(calls), object |-> datablock,
                  transform |-> built.transform, batch |-> built.batch]
        key == ObjName(datablock)
    IN [k \in DOMAIN calls \cup {key} |-> IF k \in DOMAIN calls THEN calls[k] ELSE entry]

\* StoreDraw that fills the buffers of the entry already cached once more,
\* after what they hold, instead of building new ones.
StoreDraw_append(calls, datablock, mesh) ==
    LET built == MeshDraw(mesh)
        key == ObjName(datablock)
        batch == IF key \in DOMAIN calls
                 THEN [position |-> calls[key].batch.position \o built.batch.position,
                       normal |-> calls[key].batch.normal \o built.batch.normal,
                       color |-> calls[key].batch.color \o built.batch.color,
                       indices |-> calls[key].batch.indices \o built.batch.indices]
                 ELSE built.batch
        entry == [id |-> FreshId(calls), object |-> datablock,
                  transform |-> built.transform, batch |-> batch]
    IN [k \in DOMAIN calls \cup {key} |-> IF k = key THEN entry ELSE calls[k]]

\* draw = MeshDraw(datablock.data); draw.object = datablock;
\* self.draw_calls[datablock.name] = draw
StoreDraw(calls, datablock, mesh) ==
    LET built == MeshDraw(mesh)
        entry == [id |-> FreshId(calls), object |-> datablock,
                  transform |-> built.transform, batch |-> built.batch]
        key == ObjName(datablock)
    IN [k \in DOMAIN calls \cup {key} |-> IF k = key THEN entry ELSE calls[k]]

\* SyncIds that leaves the loop after the first mesh object.
SyncIds_first_only(ids, calls, data) ==
    LET meshes == SelectSeq(ids, LAMBDA d : IsObject(d) /\ ObjType(d) = "MESH")
    IN IF meshes = <<>> THEN calls
       ELSE StoreDraw(calls, Head(meshes), data[Head(meshes)])

\* The first-time loop over depsgraph.ids.
RECURSIVE SyncIds(_, _, _)
SyncIds(ids, calls, data) ==
    IF ids = <<>> THEN calls
    ELSE LET datablock == Head(ids)
         IN IF IsObject(datablock) /\ ObjType(datablock) = "MESH"
            THEN SyncIds(Tail(ids), StoreDraw(calls, datablock, data[datablock]), data)
            ELSE SyncIds(Tail(ids), calls, data)

\* SyncUpdates without the test of update.is_updated_geometry.
RECURSIVE SyncUpdates_any_update(_, _, _)
SyncUpdates_any_update(updates, calls, data) ==
    IF updates = <<>> THEN calls
    ELSE LET update == Head(updates)
             datablock == update.id
         IN IF IsObject(datablock) /\ ObjType(datablock) = "MESH"
            THEN SyncUpdates_any_update(Tail(updates),
                                        StoreDraw(calls, datablock, data[datablock]), data)
            ELSE SyncUpdates_any_update(Tail(updates), calls, data)

\* SyncUpdates that rebuilds only what the cache already holds.
RECURSIVE SyncUpdates_cached_only(_, _, _)
SyncUpdates_cached_only(updates, calls, data) ==
    IF updates = <<>> THEN calls
    ELSE LET update == Head(updates)
             datablock == update.id
         IN IF IsObject(datablock) /\ ObjType(datablock) = "MESH"
               /\ update.is_updated_geometry /\ ObjName(datablock) \in DOMAIN calls
            THEN SyncUpdates_cached_only(Tail(updates),
                                         StoreDraw(calls, datablock, data[datablock]), data)
            ELSE SyncUpdates_cached_only(Tail(updates), calls, data)

\* The loop over depsgraph.updates of every later call.
RECURSIVE SyncUpdates(_, _, _)
SyncUpdates(updates, calls, data) ==
    IF updates = <<>> THEN calls
    ELSE LET update == Head(updates)
             datablock == update.id
         IN IF IsObject(datablock) /\ ObjType(datablock) = "MESH"
               /\ update.is_updated_geometry
            THEN SyncUpdates(Tail(updates), StoreDraw(calls, datablock, data[datablock]), data)
            ELSE SyncUpdates(Tail(updates), calls, data)

\* The first loop over depsgraph.object_instances.
CollectMeshObjects(instances) == SelectSeq(instances, LAMBDA object : ObjType(object) = "MESH")

\* CollectLights without the test of object.data.type.
RECURSIVE CollectLights_any_light(_)
CollectLights_any_light(instances) ==
    IF instances = <<>> THEN <<>>
    ELSE LET object == Head(instances)
             rest == CollectLights_any_light(Tail(instances))
         IN IF ObjType(object) = "LIGHT"
            THEN <<rotate(<<0, 0, 1>>, ObjRotation(object))>> \o rest
            ELSE rest

\* The second loop over depsgraph.object_instances.
RECURSIVE CollectLights(_)
CollectLights(instances) ==
    IF instances = <<>> THEN <<>>
    ELSE LET object == Head(instances)
             rest == CollectLights(Tail(instances))
         IN IF ObjType(object) = "LIGHT" /\ LightType(object) = "SUN"
            THEN <<rotate(<<0, 0, 1>>, ObjRotation(object))>> \o rest
            ELSE rest

\* not self.scene_data
Falsy(x) == x = None

\* view_update that never marks the engine as initialized.
view_update_unmarked(dg) ==
    /\ LET first_time == Falsy(scene_data)
           rescan == first_time \/ dg.object_updated
       IN /\ scene_data' = scene_data
          /\ draw_calls' = IF first_time
                           THEN SyncIds(dg.ids, draw_calls, mesh_data)
                           ELSE SyncUpdates(dg.updates, draw_calls, mesh_data)
          /\ mesh_objects' = IF rescan THEN CollectMeshObjects(dg.object_instances)
                             ELSE mesh_objects
          /\ lights' = IF rescan THEN CollectLights(dg.object_instances) ELSE lights
    /\ last_call' = "view_update"
    /\ depsgraph' = dg
    /\ UNCHANGED <<mesh_data, frame>>

\* view_update that drops, on a rescan, the entries of the objects that are
\* no longer among the instances.
view_update_evicting(dg) ==
    /\ LET first_time == Falsy(scene_data)
           rescan == first_time \/ dg.object_updated
           synced == IF first_time
                     THEN SyncIds(dg.ids, draw_calls, mesh_data)
                     ELSE SyncUpdates(dg.updates, draw_calls, mesh_data)
           present == {ObjName(o) : o \in Range(dg.object_instances)}
       IN /\ scene_data' = IF first_time THEN <<0>> ELSE scene_data
          /\ draw_calls' = IF rescan
                           THEN [k \in DOMAIN synced \cap present |-> synced[k]]
                           ELSE synced
          /\ mesh_objects' = IF rescan THEN CollectMeshObjects(dg.object_instances)
                             ELSE mesh_objects
          /\ lights' = IF rescan THEN CollectLights(dg.object_instances) ELSE lights
    /\ last_call' = "view_update"
    /\ depsgraph' = dg
    /\ UNCHANGED <<mesh_data, frame>>

view_update(dg) ==
    /\ LET first_time == Falsy(scene_data)
           rescan == first_time \/ dg.object_updated
       IN /\ scene_data' = IF first_time THEN <<0>> ELSE scene_data
          /\ draw_calls' = IF first_time
                           THEN SyncIds(dg.ids, draw_calls, mesh_data)
                           ELSE SyncUpdates(dg.updates, draw_calls, mesh_data)
          /\ mesh_objects' = IF rescan THEN CollectMeshObjects(dg.object_instances)
                             ELSE mesh_objects
          /\ lights' = IF rescan THEN CollectLights(dg.object_instances) ELSE lights
    /\ last_call' = "view_update"
    /\ depsgraph' = dg
    /\ UNCHANGED <<mesh_data, frame>>

\* --------------------------------------------------------------- view_draw
\* DrawLoop that passes the transform stored in the MeshDraw when it was built
\* (draw.transform) instead of object.matrix_world.
RECURSIVE DrawLoop_stored_transform(_, _, _)
DrawLoop_stored_transform(objects, context, calls) ==
    IF objects = <<>> THEN [raised |-> "none", calls |-> calls]
    ELSE LET object == Head(objects)
         IN IF ObjName(object) \notin DOMAIN draw_calls
            THEN [raised |-> "KeyError", calls |-> calls]
            ELSE LET call == draw(draw_calls[ObjName(object)], context.shader,
                                  draw_calls[ObjName(object)].transform,
                                  context.region_data, lights, context.settings)
                 IN DrawLoop_stored_transform(
                        Tail(objects), context,
                        Append(calls, call @@ [object |-> object, gpu |-> FrameGpu]))

\* The loop over self.mesh_objects.  self.draw_calls[object.name] raises
\* KeyError for a name that is no key, which ends the callback.
RECURSIVE DrawLoop(_, _, _)
DrawLoop(objects, context, calls) ==
    IF objects = <<>> THEN [raised |-> "none", calls |-> calls]
    ELSE LET object == Head(objects)
         IN IF ObjName(object) \notin DOMAIN draw_calls
            THEN [raised |-> "KeyError", calls |-> calls]
            ELSE LET call == draw(draw_calls[ObjName(object)], context.shader,
                                  context.matrix_world[object], context.region_data,
                                  lights, context.settings)
                 IN DrawLoop(Tail(objects), context,
                             Append(calls, call @@ [object |-> object, gpu |-> FrameGpu]))

\* view_draw that builds the MeshDraw of a visible object on a cache miss.
view_draw_build_on_miss(context) ==
    /\ LET missing == SelectSeq(mesh_objects, LAMBDA o : ObjName(o) \notin DOMAIN draw_calls)
           done == DrawLoop(mesh_objects, context, <<>>)
       IN /\ draw_calls' = SyncIds(missing, draw_calls, mesh_data)
          /\ frame' = [context |-> context,
                       raised |-> done.raised,
                       gpu |-> IF done.raised = "none" THEN NeutralGpu ELSE FrameGpu,
                       calls |-> done.calls]
    /\ last_call' = "view_draw"
    /\ UNCHANGED <<scene_data, lights, mesh_objects, mesh_data, depsgraph, shown>>

view_draw(context) ==
    /\ LET done == DrawLoop(mesh_objects, context, <<>>)
       IN frame' = [context |-> context,
                    raised |-> done.raised,
                    gpu |-> IF done.raised = "none" THEN NeutralGpu ELSE FrameGpu,
                    calls |-> done.calls]
    /\ last_call' = "view_draw"
    /\ UNCHANGED <<engine, mesh_data, depsgraph, shown>>

\* ------------------------------------------------------------------- host
\* The user edits the geometry of a mesh object.
EditMesh(o, mesh) ==
    /\ mesh_data[o] # mesh
    /\ mesh_data' = [mesh_data EXCEPT ![o] = mesh]
    /\ UNCHANGED <<engine, last_call, depsgraph, frame, shown>>

\* The host goes on after a callback; what the callback was given is gone.
Resume ==
    /\ last_call # "none"
    /\ last_call' = "none"
    /\ depsgraph' = NoDepsgraph
    /\ frame' = NoFrame
    /\ UNCHANGED <<engine, mesh_data, shown>>

\* ------------------------------------------------------------ input ranges
\* Sequences of distinct datablocks: depsgraph.ids lists a datablock once.
DistinctSeqs(S, n) == {s \in SeqsUpTo(S, n) : Cardinality(Range(s)) = Len(s)}

\* An update of a mesh object comes with or without the geometry flag; the
\* light and the material are reported with it, so that only their type keeps
\* them out of the cache.
UpdateRecords ==
    {u \in [id : Datablocks, is_updated_geometry : BOOLEAN] :
        u.id \in MeshObjects \/ u.is_updated_geometry}

\* depsgraph.updates holds one update per datablock.
UpdateLists ==
    {s \in SeqsUpTo(UpdateRecords, MaxEntries) :
        Cardinality({s[i].id : i \in 1..Len(s)}) = Len(s)}

\* Every object is shown once at most.
InstanceLists == DistinctSeqs(Objects, MaxEntries)

\* The first call reads ids and object_instances, a later call reads updates,
\* id_type_updated('OBJECT') and object_instances.
FirstDepsgraphs ==
    [ids : DistinctSeqs(Datablocks, MaxIds), updates : {<<>>},
     object_updated : BOOLEAN, object_instances : InstanceLists]

\* A later depsgraph carries at most MaxEntries updates and instances in all.
LaterDepsgraphs ==
    {dg \in [ids : {<<>>}, updates : UpdateLists,
             object_updated : BOOLEAN, object_instances : InstanceLists] :
        Len(dg.updates) + Len(dg.object_instances) <= MaxEntries}

Depsgraphs == IF Falsy(scene_data) THEN FirstDepsgraphs ELSE LaterDepsgraphs

Matrices == {"at_origin", "moved"}

RegionData == [view_matrix |-> "view", window_matrix |-> "window"]

\* CustomRenderEngineSettings: the defaults and an edited set.
SettingsValues ==
    {[enable_outline |-> TRUE, outline_width |-> 1, shading_sharpness |-> 1],
     [enable_outline |-> FALSE, outline_width |-> 2, shading_sharpness |-> 0]}

\* The uniforms a compiled program exposes: all, or all but a few.
Shaders == {UniformNames \ gone : gone \in {g \in SUBSET UniformNames : Cardinality(g) <= MaxMissing}}

Contexts ==
    [shader : Shaders, matrix_world : [MeshObjects -> Matrices],
     region_data : {RegionData}, settings : SettingsValues]

\* Callbacks do not overlap: the host calls the next one, or edits the scene,
\* after it has resumed from the last.
HostIdle == last_call = "none"

Next ==
    \/ HostIdle /\ \E dg \in Depsgraphs : view_update(dg) /\ UNCHANGED shown
    \/ HostIdle /\ \E context \in Contexts : view_draw(context)
    \/ HostIdle /\ \E o \in MeshObjects : \E mesh \in SceneMeshes(o) : EditMesh(o, mesh)
    \/ Resume

Spec == Init /\ [][Next]_vars

\* ------------------------------------------------ one mesh under many suns
\* The engine after the first view_update of a scene that shows m1 and up to
\* MaxLights instances of the sun objects; from there the viewport is redrawn.
SunLists == SeqsUpTo(SunObjects, MaxLights)

InitPack ==
    /\ mesh_data = [o \in MeshObjects |-> Tri]
    /\ \E suns \in SunLists :
          LET instances == <<"m1">> \o suns
          IN /\ scene_data = <<0>>
             /\ draw_calls = SyncIds(<<"m1">>, <<>>, mesh_data)
             /\ mesh_objects = CollectMeshObjects(instances)
             /\ lights = CollectLights(instances)
    /\ last_call = "none"
    /\ depsgraph = NoDepsgraph
    /\ frame = NoFrame
    /\ shown = {}

NextPack ==
    \/ HostIdle /\ \E context \in Contexts : view_draw(context)
    \/ Resume

SpecPack == InitPack /\ [][NextPack]_vars

\* ------------------------------------------------- one object, any geometry
\* Triangle meshes of up to MaxVerts vertices and MaxPolys faces.  Vertex v
\* lies at VertexCo(v), a face names three vertices, loop i has the normal
\* LoopNormal(i) and, where a color layer is active, the color LoopColor(i).
VertexCo(v) == <<v, v * v, 1>>

LoopNormal(i) == <<i, 0, 1>>

LoopColor(i) == <<i, 1, 0, 1>>

Corners(nv) == {c \in (0..(nv - 1)) \X (0..(nv - 1)) \X (0..(nv - 1)) : c[1] < c[2] /\ c[2] < c[3]}

MakeMesh(nv, faces, has_colors, tangents_ok) ==
    [vertices |-> [v \in 1..nv |-> VertexCo(v - 1)],
     loop_vertex |-> [i \in 1..(3 * Len(faces)) |-> faces[((i - 1) \div 3) + 1][((i - 1) % 3) + 1]],
     loop_normal |-> [i \in 1..(3 * Len(faces)) |-> LoopNormal(i - 1)],
     loop_triangles |-> [f \in 1..Len(faces) |-> <<3 * (f - 1), 3 * (f - 1) + 1, 3 * (f - 1) + 2>>],
     has_colors |-> has_colors,
     loop_color |-> IF has_colors THEN [i \in 1..(3 * Len(faces)) |-> LoopColor(i - 1)]
                    ELSE <<>>,
     tangents_ok |-> tangents_ok]

MeshFamily ==
    UNION {{MakeMesh(nv, faces, has_colors, tangents_ok) :
               faces \in SeqsUpTo(Corners(nv), MaxPolys),
               has_colors \in BOOLEAN, tangents_ok \in BOOLEAN} : nv \in 0..MaxVerts}

InitBuild ==
    /\ scene_data = None
    /\ draw_calls = <<>>
    /\ lights = <<>>
    /\ mesh_objects = <<>>
    /\ \E mesh \in MeshFamily : mesh_data = [o \in MeshObjects |-> IF o = "m1" THEN mesh ELSE Tri]
    /\ last_call = "none"
    /\ depsgraph = NoDepsgraph
    /\ frame = NoFrame
    /\ shown = {}

\* The scene shows m1 alone; after the first call the host reports a geometry
\* update of m1.
BuildDepsgraphs ==
    IF Falsy(scene_data)
    THEN {[ids |-> <<"m1">>, updates |-> <<>>, object_updated |-> FALSE,
           object_instances |-> <<"m1">>]}
    ELSE {[ids |-> <<>>, updates |-> <<[id |-> "m1", is_updated_geometry |-> TRUE]>>,
           object_updated |-> FALSE, object_instances |-> <<"m1">>]}

BuildContexts ==
    {c \in Contexts : c.shader = UniformNames /\ \A o \in MeshObjects : c.matrix_world[o] = "moved"}

NextBuild ==
    \/ HostIdle /\ \E dg \in BuildDepsgraphs : view_update(dg) /\ UNCHANGED shown
    \/ HostIdle /\ \E context \in BuildContexts : view_draw(context)
    \/ Resume

SpecBuild == InitBuild /\ [][NextBuild]_vars

\* ------------------------------------------------ redraws of a synced scene
\* The engine after the first view_update of a scene that shows the mesh
\* objects in some order; from there the host redraws the viewport again and
\* again, with the objects moved or not between two redraws, and no
\* view_update in between.
MoveInstanceLists == DistinctSeqs(MeshObjects, Cardinality(MeshObjects))

InitMove ==
    /\ mesh_data \in {f \in [MeshObjects -> {Tri, TwoTris}] :
                        \A o \in MeshObjects : f[o] \in SceneMeshes(o)}
    /\ \E instances \in MoveInstanceLists :
          /\ scene_data = <<0>>
          /\ draw_calls = SyncIds(instances, <<>>, mesh_data)
          /\ mesh_objects = CollectMeshObjects(instances)
          /\ lights = CollectLights(instances)
    /\ last_call = "none"
    /\ depsgraph = NoDepsgraph
    /\ frame = NoFrame
    /\ shown = {}

MoveContexts == {c \in Contexts : c.settings.enable_outline}

NextMove ==
    \/ HostIdle /\ \E context \in MoveContexts : view_draw(context)
    \/ last_call = "view_draw" /\ \E context \in MoveContexts : view_draw(context)
    \/ Resume

SpecMove == InitMove /\ [][NextMove]_vars

\* ------------------------------------------- a host that reports new meshes
\* The host of Spec under three promises: the mesh objects among the instances
\* of the first call are among its ids; names do not change; and a mesh object
\* that is among the instances for the first time in a later call has, in that
\* call, an update with the geometry flag.

\* The depsgraph has an update of the object with is_updated_geometry set.
GeometryFlagged(dg, o) ==
    \E i \in 1..Len(dg.updates) :
        dg.updates[i].id = o /\ dg.updates[i].is_updated_geometry

\* The mesh objects among depsgraph.object_instances.
MeshInstances(dg) == {o \in Range(dg.object_instances) : ObjType(o) = "MESH"}

DrawableDepsgraphs ==
    IF Falsy(scene_data)
    THEN {dg \in FirstDepsgraphs : MeshInstances(dg) \subseteq Range(dg.ids)}
    ELSE {dg \in LaterDepsgraphs :
             \A o \in MeshInstances(dg) \ shown : GeometryFlagged(dg, o)}

NextDrawable ==
    \/ HostIdle /\ \E dg \in DrawableDepsgraphs :
                      view_update(dg) /\ shown' = shown \cup MeshInstances(dg)
    \/ HostIdle /\ \E context \in BuildContexts : view_draw(context)
    \/ HostIdle /\ \E o \in MeshObjects : \E mesh \in SceneMeshes(o) : EditMesh(o, mesh)
    \/ Resume

SpecDrawable == Init /\ [][NextDrawable]_vars

\* ================================================================== claims
Cached(o) == ObjName(o) \in DOMAIN draw_calls

DrawnObjects == [i \in 1..Len(frame.calls) |-> frame.calls[i].object]

\* C1: a draw callback over a visible list that holds an object without a
\* cache entry raises nothing, draws nothing for that object and draws every
\* other visible instance.
C1_DrawSkip ==
    (last_call = "view_draw" /\ \E i \in 1..Len(mesh_objects) : ~Cached(mesh_objects[i]))
    => /\ frame.raised = "none"
       /\ DrawnObjects = SelectSeq(mesh_objects, Cached)

\* C2: in every instance draw, each uniform the shader exposes is set, whatever
\* other uniform is absent, and the draw call is issued.
C2_PerUniformSkip ==
    last_call = "view_draw"
    => \A i \in 1..Len(frame.calls) :
          /\ DOMAIN frame.calls[i].uniforms = frame.context.shader
          /\ frame.calls[i].drawn

\* C3: the light matrix of a draw, before transposition, has the first
\* min(n, 4) lights of the LightSet as its first rows in order, zero rows after
\* them, hence exactly min(n, 4) non-zero rows; further lights are dropped and
\* nothing is raised.
C3_LightPacking ==
    last_call = "view_draw"
    => /\ frame.raised = "none"
       /\ \A i \in 1..Len(frame.calls) :
             "directional_lights" \in DOMAIN frame.calls[i].uniforms
             => LET sent == frame.calls[i].uniforms["directional_lights"]
                    rows == [r \in 1..4 |-> <<sent[1][r], sent[2][r], sent[3][r], sent[4][r]>>]
                    n == Len(lights)
                    kept == IF n < 4 THEN n ELSE 4
                IN /\ \A r \in 1..4 :
                         rows[r] = IF r <= kept
                                   THEN <<lights[r][1], lights[r][2], lights[r][3], 0>>
                                   ELSE <<0, 0, 0, 0>>
                   /\ Cardinality({r \in 1..4 : rows[r] # <<0, 0, 0, 0>>}) = kept
                   /\ frame.calls[i].drawn

C3_Witness ==
    /\ last_call = "view_draw"
    /\ Len(lights) = 6
    /\ lights[1] # lights[2]
    /\ Len(frame.calls) = 1
    /\ "directional_lights" \in DOMAIN frame.calls[1].uniforms

\* C4: a later view_update whose depsgraph reports an object-level change and
\* no geometry update of a cached mesh object leaves that object's cache entry
\* the same MeshDraw.
C4_NoGeometryNoRebuild ==
    [][(last_call' = "view_update" /\ ~Falsy(scene_data) /\ depsgraph'.object_updated)
       => \A o \in MeshObjects :
             (Cached(o) /\ ~GeometryFlagged(depsgraph', o))
             => /\ ObjName(o) \in DOMAIN draw_calls'
                /\ draw_calls'[ObjName(o)] = draw_calls[ObjName(o)]]_vars

C4_Witness ==
    /\ last_call = "view_update"
    /\ depsgraph.object_updated
    /\ \E i \in 1..Len(depsgraph.updates) :
          /\ depsgraph.updates[i].id = "m1"
          /\ ~depsgraph.updates[i].is_updated_geometry
    /\ Cached("m1")
    /\ draw_calls[ObjName("m1")].batch.indices # mesh_data["m1"].loop_triangles

ExpectedBatch(mesh) ==
    [position |-> [i \in 1..Len(mesh.loop_vertex) |-> mesh.vertices[mesh.loop_vertex[i] + 1]],
     normal |-> mesh.loop_normal,
     color |-> IF mesh.has_colors THEN mesh.loop_color
               ELSE [i \in 1..Len(mesh.loop_vertex) |-> <<0, 0, 0, 0>>],
     indices |-> mesh.loop_triangles]

\* C5: a later view_update replaces the cache entry of every mesh object that
\* has an update with the geometry flag by a new MeshDraw of the object's
\* current mesh, and leaves every other key of the cache as it was.
C5_RebuildFlagged ==
    [][(last_call' = "view_update" /\ ~Falsy(scene_data))
       => /\ \A o \in MeshObjects :
                GeometryFlagged(depsgraph', o)
                => /\ ObjName(o) \in DOMAIN draw_calls'
                   /\ draw_calls'[ObjName(o)].batch = ExpectedBatch(mesh_data[o])
                   /\ draw_calls'[ObjName(o)].object = o
                   /\ Cached(o) => draw_calls'[ObjName(o)].id # draw_calls[ObjName(o)].id
          /\ \A k \in DOMAIN draw_calls \cup DOMAIN draw_calls' :
                (\A o \in MeshObjects : ObjName(o) = k => ~GeometryFlagged(depsgraph', o))
                => /\ k \in DOMAIN draw_calls /\ k \in DOMAIN draw_calls'
                   /\ draw_calls'[k] = draw_calls[k]]_vars

C5_Witness ==
    /\ last_call = "view_update"
    /\ Len(depsgraph.updates) = 2
    /\ GeometryFlagged(depsgraph, "m1")
    /\ ~GeometryFlagged(depsgraph, "m2")
    /\ Cached("m1") /\ Cached("m2")
    /\ draw_calls[ObjName("m1")].batch = ExpectedBatch(TwoTris)
    /\ draw_calls[ObjName("m1")].id = 3

\* C6: after the first view_update the keys of the cache are the names of the
\* mesh objects in depsgraph.ids, and no other.
C6_FirstSyncCaches ==
    [][(last_call' = "view_update" /\ Falsy(scene_data))
       => DOMAIN draw_calls' =
             {ObjName(d) : d \in {x \in Range(depsgraph'.ids) : x \in MeshObjects}}]_vars

C6_Witness ==
    /\ last_call = "view_update"
    /\ Range(depsgraph.ids) = {"m1", "m2", "sun1"}
    /\ DOMAIN draw_calls = {"Cube", "Suzanne"}

ExpectedDirection(o) == IF o = "sun1" THEN <<0, 0, 1>> ELSE <<0, -1, 0>>

ExpectedLights(instances) ==
    LET suns == SelectSeq(instances, LAMBDA o : o \in SunObjects)
    IN [i \in 1..Len(suns) |-> ExpectedDirection(suns[i])]

\* C7: a view_update that is the first, or whose depsgraph reports an
\* object-level change, sets the visible list to the mesh instances and the
\* LightSet to the directions of the sun instances, both in the order of
\* depsgraph.object_instances; any other view_update leaves both lists alone.
C7_RescanExactly ==
    [][last_call' = "view_update"
       => IF Falsy(scene_data) \/ depsgraph'.object_updated
          THEN /\ mesh_objects' = SelectSeq(depsgraph'.object_instances,
                                            LAMBDA o : o \in MeshObjects)
               /\ lights' = ExpectedLights(depsgraph'.object_instances)
          ELSE /\ mesh_objects' = mesh_objects
               /\ lights' = lights]_vars

C7_Witness ==
    /\ last_call = "view_update"
    /\ depsgraph.object_updated
    /\ depsgraph.object_instances = <<"sun2", "sun1">>
    /\ lights = <<<<0, -1, 0>>, <<0, 0, 1>>>>
    /\ mesh_objects = <<>>
    /\ DOMAIN draw_calls # {}

\* C8: the first view_update initializes the engine, and an initialized engine
\* stays initialized through every later callback.
C8_Lifecycle ==
    [][/\ last_call' = "view_update" => ~Falsy(scene_data')
       /\ ~Falsy(scene_data) => ~Falsy(scene_data')]_vars

C8_Witness ==
    /\ last_call = "view_draw"
    /\ ~Falsy(scene_data)
    /\ Len(frame.calls) = 2

\* C9: every instance of a draw callback is drawn with depth write, the
\* LESS_EQUAL depth test and back-face culling on, and the GPU state is
\* neutral when the callback is over.
C9_GpuBracket ==
    last_call = "view_draw"
    => /\ \A i \in 1..Len(frame.calls) : frame.calls[i].gpu = FrameGpu
       /\ frame.gpu = NeutralGpu

\* C10: the buffer cached for a mesh has one position, one normal and one
\* color per loop of the mesh, and position i is the coordinate of the vertex
\* loop i refers to.
C10_PerLoopArrays ==
    \A o \in MeshObjects :
        Cached(o)
        => LET batch == draw_calls[ObjName(o)].batch
               mesh == mesh_data[o]
               count_of_loops == Len(mesh.loop_vertex)
           IN /\ Len(batch.position) = count_of_loops
              /\ Len(batch.normal) = count_of_loops
              /\ Len(batch.color) = count_of_loops
              /\ \A i \in 1..count_of_loops :
                    batch.position[i] = mesh.vertices[mesh.loop_vertex[i] + 1]

C10_Witness ==
    /\ Cached("m1")
    /\ Len(mesh_data["m1"].vertices) = 4
    /\ mesh_data["m1"].loop_vertex = <<1, 2, 3, 0, 1, 3>>
    /\ Len(draw_calls[ObjName("m1")].batch.position) = 6
    /\ draw_calls[ObjName("m1")].id = 2

\* C11: every index of the triangle list of a cached buffer is below the number
\* of positions of that buffer, and the list is the list of loop triples of the
\* triangulated mesh, not renumbered.
C11_IndicesInRange ==
    \A o \in MeshObjects :
        Cached(o)
        => LET batch == draw_calls[ObjName(o)].batch
               mesh == mesh_data[o]
           IN /\ batch.indices = mesh.loop_triangles
              /\ \A t \in 1..Len(batch.indices) : \A k \in 1..3 :
                    /\ batch.indices[t][k] >= 0
                    /\ batch.indices[t][k] < Len(batch.position)

C11_Witness ==
    /\ Cached("m1")
    /\ mesh_data["m1"].loop_vertex = <<0, 2, 3, 0, 1, 2>>
    /\ draw_calls[ObjName("m1")].batch.indices = <<<<0, 1, 2>>, <<3, 4, 5>>>>
    /\ Len(draw_calls[ObjName("m1")].batch.position) = 6

C13_ColorDefault ==
    \A o \in MeshObjects :
        Cached(o)
        => LET batch == draw_calls[ObjName(o)].batch
               mesh == mesh_data[o]
           IN /\ Len(batch.color) = Len(mesh.loop_vertex)
              /\ \A i \in 1..Len(batch.color) :
                    batch.color[i] = IF mesh.has_colors THEN mesh.loop_color[i]
                                     ELSE <<0, 0, 0, 0>>

C13_Witness ==
    /\ Cached("m1")
    /\ ~mesh_data["m1"].has_colors
    /\ draw_calls[ObjName("m1")].batch.color = <<<<0, 0, 0, 0>>, <<0, 0, 0, 0>>, <<0, 0, 0, 0>>>>

\* C18: when calc_tangents raises for a mesh, the build still completes: the
\* object is cached by the view_update that builds it, with the positions,
\* per-loop normals, colors and indices the mesh gives when calc_tangents
\* succeeds.
C18_TangentFallback ==
    \A o \in MeshObjects :
        (GeometryFlagged(depsgraph, o) \/ o \in Range(depsgraph.ids))
        => /\ Cached(o)
           /\ draw_calls[ObjName(o)].batch =
                 ExpectedBatch([mesh_data[o] EXCEPT !.tangents_ok = TRUE])

C18_Witness ==
    /\ last_call = "view_update"
    /\ GeometryFlagged(depsgraph, "m1")
    /\ ~mesh_data["m1"].tangents_ok
    /\ Cached("m1")
    /\ Len(draw_calls[ObjName("m1")].batch.normal) = 6
    /\ draw_calls[ObjName("m1")].batch.normal[6] = <<5, 0, 1>>

\* C19: the buffer cached for a mesh without loops is empty (no position, no
\* normal, no color, no index triple), and a draw callback that draws the
\* object raises nothing and issues a draw call of no triangle.
C19_EmptyMesh ==
    \A o \in MeshObjects :
        (Cached(o) /\ Len(mesh_data[o].loop_vertex) = 0)
        => LET batch == draw_calls[ObjName(o)].batch
           IN /\ batch.position = <<>>
              /\ batch.normal = <<>>
              /\ batch.color = <<>>
              /\ batch.indices = <<>>
              /\ (last_call = "view_draw" /\ o \in Range(mesh_objects))
                 => /\ frame.raised = "none"
                    /\ \E i \in 1..Len(frame.calls) :
                          /\ frame.calls[i].object = o
                          /\ frame.calls[i].batch = draw_calls[ObjName(o)].id
                          /\ frame.calls[i].drawn

C19_Witness ==
    /\ last_call = "view_draw"
    /\ Len(mesh_data["m1"].vertices) = 3
    /\ mesh_data["m1"].loop_vertex = <<>>
    /\ Cached("m1")
    /\ Len(frame.calls) = 1
    /\ frame.calls[1].object = "m1"

\* C14: a draw callback whose visible instances all have a cache entry issues
\* one draw call per instance, in the order of the list, each with the batch
\* cached for the object, however many lights there are; with an empty
\* LightSet the light matrix it passes is all zeros.
C14_OneDrawPerInstance ==
    (last_call = "view_draw" /\ \A i \in 1..Len(mesh_objects) : Cached(mesh_objects[i]))
    => /\ frame.raised = "none"
       /\ DrawnObjects = mesh_objects
       /\ \A i \in 1..Len(frame.calls) :
             /\ frame.calls[i].drawn
             /\ frame.calls[i].batch = draw_calls[ObjName(mesh_objects[i])].id
             /\ (lights = <<>> /\ "directional_lights" \in DOMAIN frame.calls[i].uniforms)
                => frame.calls[i].uniforms["directional_lights"] =
                      <<<<0, 0, 0, 0>>, <<0, 0, 0, 0>>, <<0, 0, 0, 0>>, <<0, 0, 0, 0>>>>

C14_Witness ==
    /\ last_call = "view_draw"
    /\ lights = <<>>
    /\ mesh_objects = <<"m2", "m1">>
    /\ Len(frame.calls) = 2
    /\ frame.calls[1].object = "m2"
    /\ "directional_lights" \in DOMAIN frame.calls[2].uniforms

\* C15: the world transform a draw callback passes for an instance is the
\* matrix the object has at that callback, and the batch drawn is the one in
\* the cache, which the callback leaves alone; so when the viewport is redrawn
\* with no view_update in between, each instance is drawn with the matrix of
\* the new callback and the same batch as before.
C15_FreshTransform ==
    [][last_call' = "view_draw"
       => \A i \in 1..Len(frame'.calls) :
             LET call == frame'.calls[i]
             IN /\ "matrix_world" \in DOMAIN call.uniforms
                   => call.uniforms["matrix_world"] = frame'.context.matrix_world[call.object]
                /\ call.batch = draw_calls[ObjName(call.object)].id
                /\ draw_calls'[ObjName(call.object)] = draw_calls[ObjName(call.object)]
                /\ (last_call = "view_draw" /\ i <= Len(frame.calls))
                   => /\ call.object = frame.calls[i].object
                      /\ call.batch = frame.calls[i].batch]_vars

C15_Witness ==
    /\ last_call = "view_draw"
    /\ mesh_objects = <<"m1", "m2">>
    /\ frame.context.matrix_world = [o \in MeshObjects |-> IF o = "m1" THEN "moved" ELSE "at_origin"]
    /\ Len(frame.calls) = 2
    /\ frame.calls[1].uniforms["matrix_world"] = "moved"
    /\ frame.calls[2].uniforms["matrix_world"] = "at_origin"

\* C16: a draw callback leaves the cache, the visible list, the LightSet and
\* the initialization mark as they are; whenever one of them changes, the step
\* is a view_update.
C16_SingleWriter ==
    [][/\ last_call' = "view_draw"
          => /\ draw_calls' = draw_calls
             /\ mesh_objects' = mesh_objects
             /\ lights' = lights
             /\ scene_data' = scene_data
       /\ engine' # engine => (last_call' = "view_update" /\ last_call = "none")]_vars

C16_Witness ==
    /\ last_call = "view_draw"
    /\ frame.raised = "KeyError"
    /\ Len(frame.calls) = 1
    /\ DOMAIN draw_calls = {"Cube"}
    /\ mesh_objects = <<"m1", "m2">>

\* C17: a key of the cache stays a key through every later callback, also
\* through a view_update whose instances no longer hold the object: the set of
\* keys only grows.
C17_NeverEvicts ==
    [][DOMAIN draw_calls \subseteq DOMAIN draw_calls']_vars

C17_Witness ==
    /\ last_call = "view_update"
    /\ depsgraph.ids = <<>>
    /\ depsgraph.object_updated
    /\ depsgraph.object_instances = <<"m2">>
    /\ GeometryFlagged(depsgraph, "m2")
    /\ mesh_objects = <<"m2">>
    /\ DOMAIN draw_calls = {"Cube", "Suzanne"}
    /\ draw_calls["Cube"].id = 1

\* C20: with a host that lists every mesh instance of the first call among the
\* ids, keeps the names, and reports a mesh object that is new among the
\* instances of a later call with a geometry-flagged update in that call, every
\* object of the visible list has a cache entry under its name after any
\* sequence of view_update calls, and the lookup of a draw callback never
\* misses.
C20_DrawableList ==
    /\ \A i \in 1..Len(mesh_objects) : Cached(mesh_objects[i])
    /\ last_call = "view_draw"
       => /\ frame.raised = "none"
          /\ DrawnObjects = mesh_objects

C20_Witness ==
    /\ last_call = "view_update"
    /\ depsgraph.ids = <<>>
    /\ depsgraph.object_updated
    /\ depsgraph.object_instances = <<"m2">>
    /\ GeometryFlagged(depsgraph, "m2")
    /\ shown = {"m2"}
    /\ mesh_objects = <<"m2">>
    /\ DOMAIN draw_calls = {"Suzanne"}
    /\ draw_calls["Suzanne"].id = 1

====
